---- MODULE Spec2Model ----
(***************************************************************************)
(* scripts/image_to_sprite.py: one run of the command-line sprite          *)
(* converter, from sys.argv and the file at the image path to the exit     *)
(* status, standard output and standard error.                             *)
(*                                                                         *)
(* Text is modelled as TLA+ strings (sequences of characters), Python      *)
(* floats as IEEE-754 binary64 values (a 53-bit significand kept as a      *)
(* sequence of bits, most significant first, and an exponent), and the     *)
(* Pillow calls by their documented behaviour.                             *)
(***************************************************************************)
EXTENDS Integers, Sequences, FiniteSets, TLC

(***************************************************************************)
(* Bounds of the model.                                                    *)
(***************************************************************************)
MaxW == 3            \* widest decoded image of a run
MaxH == 3            \* tallest decoded image of a run
MaxPixels == 4       \* most pixels of a decoded image of a run
MaxTargetWidth == 3  \* largest target width given on the command line
MaxDim == 15         \* largest dimension and target width of ResizeSpec

(***************************************************************************)
(* Python float arithmetic (binary64, round to nearest, ties to even).     *)
(* A float >= 0 is [bits, exp]: bits is <<>> for 0.0 and otherwise the 53  *)
(* significand bits b1 b2 ... b53 with b1 = 1; the value is                *)
(* b1.b2...b53 * 2^exp.                                                    *)
(***************************************************************************)
MantissaBits == 53

RECURSIVE Pow2(_)
Pow2(n) == IF n = 0 THEN 1 ELSE 2 * Pow2(n - 1)

Front(s) == SubSeq(s, 1, Len(s) - 1)

Last(s) == s[Len(s)]

\* the integer of a bit sequence, by halves (the recursion stays shallow)
RECURSIVE BitsToInt(_)
BitsToInt(bits) ==
    IF bits = <<>> THEN 0
    ELSE IF Len(bits) = 1 THEN bits[1]
    ELSE LET k == Len(bits) \div 2
         IN  BitsToInt(SubSeq(bits, 1, k)) * Pow2(Len(bits) - k)
             + BitsToInt(SubSeq(bits, k + 1, Len(bits)))

RECURSIVE IntToBits(_)
IntToBits(n) ==
    IF n = 0 THEN <<>> ELSE IntToBits(n \div 2) \o <<n % 2>>

\* floor(log2(a / b)) for a, b > 0
RECURSIVE FloorLog2Ratio(_, _)
FloorLog2Ratio(a, b) ==
    IF a >= b
    THEN IF 2 * b <= a THEN 1 + FloorLog2Ratio(a, 2 * b) ELSE 0
    ELSE FloorLog2Ratio(2 * a, b) - 1

JoinDivide(first, rest) ==
    [bits |-> first.bits \o rest.bits, rem |-> rest.rem]

\* n more quotient bits of r / den (0 <= r < den), and the remainder left;
\* the n bits are produced by halves
RECURSIVE LongDivide(_, _, _)
RECURSIVE DivideOn(_, _, _)
LongDivide(r, den, n) ==
    IF n = 0 THEN [bits |-> <<>>, rem |-> r]
    ELSE IF n = 1
    THEN IF 2 * r >= den
         THEN [bits |-> <<1>>, rem |-> 2 * r - den]
         ELSE [bits |-> <<0>>, rem |-> 2 * r]
    ELSE DivideOn(LongDivide(r, den, n \div 2), den, n - n \div 2)

\* once the remainder is 0 the division is exact and the bits left are 0
DivideOn(first, den, n) ==
    IF first.rem = 0
    THEN [bits |-> first.bits \o [i \in 1..n |-> 0], rem |-> 0]
    ELSE JoinDivide(first, LongDivide(first.rem, den, n))

\* bits + 1: the last 0 becomes 1 and the 1s after it become 0
Increment(bits) ==
    LET zeros == {i \in 1..Len(bits) : bits[i] = 0}
    IN  IF zeros = {}
        THEN <<1>> \o [i \in 1..Len(bits) |-> 0]
        ELSE LET k == CHOOSE i \in zeros : \A j \in zeros : j <= i
             IN  [i \in 1..Len(bits) |->
                    IF i < k THEN bits[i] ELSE IF i = k THEN 1 ELSE 0]

\* the float of significand `bits` (53 bits) and exponent e, rounded up by
\* one unit in the last place when `up`
RoundFloat(bits, e, up) ==
    IF ~up THEN [bits |-> bits, exp |-> e]
    ELSE LET inc == Increment(bits)
         IN  IF Len(inc) > MantissaBits
             THEN [bits |-> SubSeq(inc, 1, MantissaBits), exp |-> e + 1]
             ELSE [bits |-> inc, exp |-> e]

FloatZero == [bits |-> <<>>, exp |-> 0]

\* a / b for ints a >= 0, b > 0: the correctly rounded quotient
TrueDivide(a, b) ==
    IF a = 0 THEN FloatZero
    ELSE LET e   == FloorLog2Ratio(a, b)
             num == IF e < 0 THEN a * Pow2(-e) ELSE a
             den == IF e > 0 THEN b * Pow2(e) ELSE b
             d   == LongDivide(num - den, den, MantissaBits - 1)
             raw == <<1>> \o d.bits
             up  == \/ 2 * d.rem > den
                    \/ 2 * d.rem = den /\ Last(raw) = 1
         IN  RoundFloat(raw, e, up)

JoinMul(high, low) == [bits |-> high.bits \o low.bits, carry |-> high.carry]

\* n * (the integer of `bits`) + carry: the low Len(bits) bits of it, and
\* the carry out of them; the low half is multiplied first
RECURSIVE MulBits(_, _, _)
RECURSIVE MulHigh(_, _, _)
MulBits(bits, n, carry) ==
    IF bits = <<>> THEN [bits |-> <<>>, carry |-> carry]
    ELSE IF Len(bits) = 1
    THEN [bits  |-> <<(n * bits[1] + carry) % 2>>,
          carry |-> (n * bits[1] + carry) \div 2]
    ELSE LET k == Len(bits) \div 2
         IN  MulHigh(SubSeq(bits, 1, k), n,
                     MulBits(SubSeq(bits, k + 1, Len(bits)), n, carry))

\* the high half takes the carry out of the low half, which is worked out first
MulHigh(bits, n, low) ==
    CASE low.carry >= 0 -> JoinMul(MulBits(bits, n, low.carry), low)

\* the bits of the integer n * (the integer of `bits`)
Product(bits, n) ==
    LET m == MulBits(bits, n, 0) IN IntToBits(m.carry) \o m.bits

\* n * f for an int n >= 0 and a float f >= 0: the correctly rounded product
FloatMulInt(n, f) ==
    IF n = 0 \/ f.bits = <<>> THEN FloatZero
    ELSE LET p      == Product(f.bits, n)
             d      == Len(p) - MantissaBits
             kept   == SubSeq(p, 1, MantissaBits)
             sticky == \E i \in (MantissaBits + 2)..Len(p) : p[i] = 1
             up     == /\ d >= 1
                       /\ p[MantissaBits + 1] = 1
                       /\ (sticky \/ Last(kept) = 1)
         IN  RoundFloat(kept, f.exp + d, up)

\* int(f) for a float f >= 0: the integer part
FloatToInt(f) ==
    IF f.bits = <<>> \/ f.exp < 0 THEN 0
    ELSE IF f.exp < MantissaBits
    THEN BitsToInt(SubSeq(f.bits, 1, f.exp + 1))
    ELSE BitsToInt(f.bits) * Pow2(f.exp - MantissaBits + 1)

\* f < n for a float f >= 0 and an int n
FloatLessInt(f, n) == FloatToInt(f) < n

(***************************************************************************)
(* Python text conversions.                                                *)
(***************************************************************************)
Digits == <<"0", "1", "2", "3", "4", "5", "6", "7", "8", "9">>

CharAt(s, i) == SubSeq(s, i, i)

IsDigit(c) == \E d \in 1..10 : Digits[d] = c

DigitValue(c) == (CHOOSE d \in 1..10 : Digits[d] = c) - 1

\* str(n) for an int n
RECURSIVE IntToStr(_)
IntToStr(n) ==
    IF n < 0 THEN "-" \o IntToStr(-n)
    ELSE IF n < 10 THEN Digits[n + 1]
    ELSE IntToStr(n \div 10) \o Digits[(n % 10) + 1]

RECURSIVE DigitsToInt(_)
DigitsToInt(s) ==
    IF Len(s) = 0 THEN 0
    ELSE 10 * DigitsToInt(SubSeq(s, 1, Len(s) - 1)) + DigitValue(CharAt(s, Len(s)))

None == <<>>

\* int(s) for a command-line string s: an optional sign, then decimal
\* digits (the arguments of the model hold no white space and no
\* underscores); int() raises ValueError on any other string
IntBody(s) ==
    IF Len(s) > 0 /\ CharAt(s, 1) \in {"+", "-"} THEN SubSeq(s, 2, Len(s)) ELSE s

IsInt(s) ==
    /\ Len(IntBody(s)) > 0
    /\ \A i \in 1..Len(IntBody(s)) : IsDigit(CharAt(IntBody(s), i))

IntValue(s) ==
    IF CharAt(s, 1) = "-" THEN -DigitsToInt(IntBody(s)) ELSE DigitsToInt(IntBody(s))

\* sep.join(strs)
RECURSIVE Join(_, _)
Join(strs, sep) ==
    IF Len(strs) = 0 THEN ""
    ELSE IF Len(strs) = 1 THEN strs[1]
    ELSE Join(Front(strs), sep) \o sep \o Last(strs)

\* the text print(s) writes to a stream
PrintLine(s) == s \o "\n"

\* f"{f:.1f}" for a float f >= 0: the exact value of f rounded to one
\* decimal place, ties to even
FormatFixed1(f) ==
    IF f.bits = <<>> THEN "0.0"
    ELSE LET p     == Product(f.bits, 10)
             nfrac == MantissaBits - 1 - f.exp
             pad   == IF Len(p) <= nfrac
                      THEN [i \in 1..(nfrac + 1 - Len(p)) |-> 0] \o p
                      ELSE p
             whole == BitsToInt(SubSeq(pad, 1, Len(pad) - nfrac))
             frac  == SubSeq(pad, Len(pad) - nfrac + 1, Len(pad))
             rest  == \E i \in 2..Len(frac) : frac[i] = 1
             up    == /\ Len(frac) > 0
                      /\ frac[1] = 1
                      /\ (rest \/ whole % 2 = 1)
             tenths == IF up THEN whole + 1 ELSE whole
         IN  IntToStr(tenths \div 10) \o "." \o IntToStr(tenths % 10)

(***************************************************************************)
(* Images (Pillow).  An image is [mode, width, height, data]: data maps    *)
(* <<x, y>>, 0 <= x < width and 0 <= y < height, to the pixel there: an    *)
(* <<r, g, b>> triple in mode "RGB", one grey level in mode "L".           *)
(***************************************************************************)
Coords(w, h) == (0..(w - 1)) \X (0..(h - 1))

NoImage == [mode |-> "", width |-> 0, height |-> 0, data |-> <<>>]

\* img.convert('RGB'): a grey level l becomes (l, l, l)
ConvertRGB(im) ==
    [im EXCEPT !.mode = "RGB",
               !.data = [c \in DOMAIN im.data |->
                            IF im.mode = "L"
                            THEN <<im.data[c], im.data[c], im.data[c]>>
                            ELSE im.data[c]]]

\* img.resize((w, h), NEAREST): Pillow refuses a size below 1 (ValueError);
\* otherwise each pixel of the result is the source pixel under its centre
CanResize(w, h) == w >= 1 /\ h >= 1

Resize(im, w, h) ==
    [im EXCEPT !.width = w, !.height = h,
               !.data = [c \in Coords(w, h) |->
                            im.data[<<((2 * c[1] + 1) * im.width) \div (2 * w),
                                      ((2 * c[2] + 1) * im.height) \div (2 * h)>>]]]

(***************************************************************************)
(* image_to_sprite                                                         *)
(***************************************************************************)
\* Truthy as `if target_width is not None:`
TruthyNotNone(target_width) == target_width # None

\* `if target_width:` None and 0 are false
Truthy(target_width) == target_width # None /\ target_width[1] # 0

\* TargetHeight with round() in the place of int()
TargetHeightRounded(target_width, im) ==
    (2 * target_width * im.height + im.width) \div (2 * im.width)

\* int(target_width * (img.height / img.width)): the quotient and the
\* product are floats, int() drops the fraction (towards zero)
TargetHeight(target_width, im) ==
    IF target_width >= 0
    THEN FloatToInt(FloatMulInt(target_width, TrueDivide(im.height, im.width)))
    ELSE -FloatToInt(FloatMulInt(-target_width, TrueDivide(im.height, im.width)))

\* brightness = (r + g + b) / 3
Brightness(rgb) == TrueDivide(rgb[1] + rgb[2] + rgb[3], 3)

\* PixelValue with <= in the place of < (for a threshold >= 0)
PixelValueNotStrict(rgb, threshold) ==
    IF \/ FloatLessInt(Brightness(rgb), threshold)
       \/ threshold >= 0 /\ Brightness(rgb) = TrueDivide(threshold, 1)
    THEN 1 ELSE 0

\* pixel_value = 1 if brightness < threshold else 0
PixelValue(rgb, threshold) ==
    IF FloatLessInt(Brightness(rgb), threshold) THEN 1 ELSE 0

\* BuildPixels with the two loops exchanged
BuildPixelsSwapped(im, w, h, threshold) ==
    [y \in 1..w |-> [x0 \in 1..h |-> PixelValue(im.data[<<y - 1, x0 - 1>>], threshold)]]

\* the rows built by the loops over range(height) and range(width)
BuildPixels(im, w, h, threshold) ==
    [y \in 1..h |-> [x0 \in 1..w |-> PixelValue(im.data[<<x0 - 1, y - 1>>], threshold)]]

(***************************************************************************)
(* format_as_typescript                                                    *)
(***************************************************************************)
\* ",".join(str(p) for p in row)
RowStr(row) == Join([i \in 1..Len(row) |-> IntToStr(row[i])], ",")

\* FormatRow without the comma after the row
FormatRowNoComma(row) == "    [" \o RowStr(row) \o "]"

\* f"    [{row_str}],"
FormatRow(row) == "    [" \o RowStr(row) \o "],"

FormatAsTypescript(pixels, name) ==
    Join(<<"const " \o name \o " = {", "  pixels: [">>
            \o [y \in 1..Len(pixels) |-> FormatRow(pixels[y])]
            \o <<"  ],", "};">>,
         "\n")

RECURSIVE SumSeq(_)
SumSeq(s) == IF Len(s) = 0 THEN 0 ELSE SumSeq(Front(s)) + Last(s)

\* sum(sum(row) for row in pixels)
FilledPixels(pixels) == SumSeq([y \in 1..Len(pixels) |-> SumSeq(pixels[y])])

(***************************************************************************)
(* The inputs of a run: the command line and the file at the image path.   *)
(***************************************************************************)
DefaultThreshold == 128

ProgramName == "image_to_sprite.py"

ImagePath == "logo.png"

ThresholdArgs == {"0", "128", "256", "abc"}

WidthArgs == {"0", "-1", "wide"} \cup {IntToStr(n) : n \in 1..MaxTargetWidth}

ArgvSet ==
    {<<ProgramName>>, <<ProgramName, ImagePath>>}
    \cup {<<ProgramName, ImagePath, t>> : t \in ThresholdArgs}
    \cup {<<ProgramName, ImagePath, t, w>> : t \in ThresholdArgs, w \in WidthArgs}
    \cup {<<ProgramName, ImagePath, "128", w, "extra">> : w \in WidthArgs}

\* two colours a mode: black and white, two greys either side of 128
Palettes ==
    { [mode |-> "RGB", colours |-> << <<0, 0, 0>>, <<255, 255, 255>> >>],
      [mode |-> "RGB", colours |-> << <<127, 128, 128>>, <<127, 128, 129>> >>],
      [mode |-> "L", colours |-> <<127, 128>>] }

Sizes == {sz \in (1..MaxW) \X (1..MaxH) : sz[1] * sz[2] <= MaxPixels}

Images ==
    UNION { { [mode |-> p.mode, width |-> sz[1], height |-> sz[2],
               data |-> [c \in Coords(sz[1], sz[2]) |-> p.colours[f[c]]]] :
                 p \in Palettes, f \in [Coords(sz[1], sz[2]) -> {1, 2}] } :
            sz \in Sizes }

\* the file at the image path: none, one that is no image, or an image
Disks ==
    { [kind |-> "missing", image |-> NoImage],
      [kind |-> "garbage", image |-> NoImage] }
    \cup { [kind |-> "image", image |-> im] : im \in Images }

(***************************************************************************)
(* main: the state of a run.                                               *)
(***************************************************************************)
VARIABLES
    argv,          \* sys.argv
    disk,          \* the file at the image path
    pc,            \* where the run is
    status,        \* the exit status: None while the run lasts
    stdout,        \* what was written to standard output
    stderr,        \* what was written to standard error
    calls,         \* the calls made on the file system and on Pillow, in order
    image_path,    \* the locals of main and image_to_sprite
    threshold,
    target_width,
    img,
    pixels,
    width,
    height

vars == <<argv, disk, pc, status, stdout, stderr, calls, image_path,
          threshold, target_width, img, pixels, width, height>>

locals == <<image_path, threshold, target_width, img, pixels, width, height>>

UsageText ==
    PrintLine("Usage: python image_to_sprite.py <image_path> [threshold] [target_width]")
    \o PrintLine("  threshold: 0-255, default 128. Pixels darker than this become 1")
    \o PrintLine("  target_width: optional, resize image to this width")

\* what the interpreter writes for an exception nobody catches (the frames
\* it lists are left out); the exit status is then 1
Traceback(exception) ==
    PrintLine("Traceback (most recent call last):") \o PrintLine(exception)

Start(a, d) ==
    /\ argv = a
    /\ disk = d
    /\ pc = "main"
    /\ status = None
    /\ stdout = ""
    /\ stderr = ""
    /\ calls = <<>>
    /\ image_path = ""
    /\ threshold = 0
    /\ target_width = None
    /\ img = NoImage
    /\ pixels = <<>>
    /\ width = 0
    /\ height = 0

Init == \E a \in ArgvSet, d \in Disks : Start(a, d)

\* sys.exit(n), or the end of main (n = 0)
Exit(n) == pc' = "exited" /\ status' = <<n>>

\* Usage leaving with status 0
UsageExitZero ==
    /\ pc = "main"
    /\ Len(argv) < 2
    /\ stdout' = stdout \o UsageText
    /\ Exit(0)
    /\ UNCHANGED <<argv, disk, stderr, calls, locals>>

\* lines 84-88
Usage ==
    /\ pc = "main"
    /\ Len(argv) < 2
    /\ stdout' = stdout \o UsageText
    /\ Exit(1)
    /\ UNCHANGED <<argv, disk, stderr, calls, locals>>

ArgsAreInts ==
    /\ Len(argv) > 2 => IsInt(argv[3])
    /\ Len(argv) > 3 => IsInt(argv[4])

\* line 91
ArgThreshold(a) == IF Len(a) > 2 THEN IntValue(a[3]) ELSE DefaultThreshold

\* ArgTargetWidth with a width of 1 where none is given
ArgTargetWidthOne(a) == IF Len(a) > 3 THEN <<IntValue(a[4])>> ELSE <<1>>

\* line 92
ArgTargetWidth(a) == IF Len(a) > 3 THEN <<IntValue(a[4])>> ELSE None

\* lines 90-92
ParseArgs ==
    /\ pc = "main"
    /\ Len(argv) >= 2
    /\ ArgsAreInts
    /\ image_path' = argv[2]
    /\ threshold' = ArgThreshold(argv)
    /\ target_width' = ArgTargetWidth(argv)
    /\ pc' = "exists"
    /\ UNCHANGED <<argv, disk, status, stdout, stderr, calls, img, pixels, width, height>>

\* lines 90-92, int() raising ValueError
ArgsError ==
    /\ pc = "main"
    /\ Len(argv) >= 2
    /\ ~ArgsAreInts
    /\ image_path' = argv[2]
    /\ threshold' = IF Len(argv) > 2 /\ IsInt(argv[3]) THEN ArgThreshold(argv) ELSE threshold
    /\ stderr' = stderr \o Traceback("ValueError")
    /\ Exit(1)
    /\ UNCHANGED <<argv, disk, stdout, calls, target_width, img, pixels, width, height>>

\* FileNotFound with the message on standard output
FileNotFoundOnStdout ==
    /\ pc = "exists"
    /\ disk.kind = "missing"
    /\ calls' = Append(calls, "os.path.exists")
    /\ stdout' = stdout \o PrintLine("Error: File not found: " \o image_path)
    /\ Exit(1)
    /\ UNCHANGED <<argv, disk, stderr, locals>>

\* FileNotFound without its sys.exit(1)
FileNotFoundNoExit ==
    /\ pc = "exists"
    /\ disk.kind = "missing"
    /\ calls' = Append(calls, "os.path.exists")
    /\ stderr' = stderr \o PrintLine("Error: File not found: " \o image_path)
    /\ pc' = "open"
    /\ UNCHANGED <<argv, disk, status, stdout, locals>>

\* lines 94-96
FileNotFound ==
    /\ pc = "exists"
    /\ disk.kind = "missing"
    /\ calls' = Append(calls, "os.path.exists")
    /\ stderr' = stderr \o PrintLine("Error: File not found: " \o image_path)
    /\ Exit(1)
    /\ UNCHANGED <<argv, disk, stdout, locals>>

\* line 94, the path exists
FileExists ==
    /\ pc = "exists"
    /\ disk.kind # "missing"
    /\ calls' = Append(calls, "os.path.exists")
    /\ pc' = "open"
    /\ UNCHANGED <<argv, disk, status, stdout, stderr, locals>>

\* lines 98, 24-28
OpenImage ==
    /\ pc = "open"
    /\ disk.kind = "image"
    /\ calls' = Append(calls, "Image.open")
    /\ img' = IF disk.image.mode # "RGB" THEN ConvertRGB(disk.image) ELSE disk.image
    /\ pc' = "resize"
    /\ UNCHANGED <<argv, disk, status, stdout, stderr, image_path, threshold,
                   target_width, pixels, width, height>>

\* line 24, Image.open raising on a file that is no image
OpenError ==
    /\ pc = "open"
    /\ disk.kind = "garbage"
    /\ calls' = Append(calls, "Image.open")
    /\ stderr' = stderr \o Traceback("PIL.UnidentifiedImageError")
    /\ Exit(1)
    /\ UNCHANGED <<argv, disk, stdout, locals>>

\* lines 31-34
ResizeImage ==
    /\ pc = "resize"
    /\ Truthy(target_width)
    /\ CanResize(target_width[1], TargetHeight(target_width[1], img))
    /\ calls' = Append(calls, "Image.resize")
    /\ img' = Resize(img, target_width[1], TargetHeight(target_width[1], img))
    /\ pc' = "threshold"
    /\ UNCHANGED <<argv, disk, status, stdout, stderr, image_path, threshold,
                   target_width, pixels, width, height>>

\* line 34, img.resize raising ValueError
ResizeError ==
    /\ pc = "resize"
    /\ Truthy(target_width)
    /\ ~CanResize(target_width[1], TargetHeight(target_width[1], img))
    /\ calls' = Append(calls, "Image.resize")
    /\ stderr' = stderr \o Traceback("ValueError")
    /\ Exit(1)
    /\ UNCHANGED <<argv, disk, stdout, locals>>

\* line 31, no target width
SkipResize ==
    /\ pc = "resize"
    /\ ~Truthy(target_width)
    /\ pc' = "threshold"
    /\ UNCHANGED <<argv, disk, status, stdout, stderr, calls, locals>>

\* lines 36-52
Threshold ==
    /\ pc = "threshold"
    /\ width' = img.width
    /\ height' = img.height
    /\ stderr' = stderr \o PrintLine("Image size: " \o IntToStr(img.width)
                                      \o "x" \o IntToStr(img.height))
    /\ pixels' = BuildPixels(img, img.width, img.height, threshold)
    /\ pc' = "emit"
    /\ UNCHANGED <<argv, disk, status, stdout, calls, image_path, threshold,
                   target_width, img>>

\* lines 100-101
Emit ==
    /\ pc = "emit"
    /\ stdout' = stdout \o PrintLine(FormatAsTypescript(pixels, "STACK_ATTACK_LOGO"))
    /\ pc' = "summary"
    /\ UNCHANGED <<argv, disk, status, stderr, calls, locals>>

SummaryHead(w, h) ==
    PrintLine("\n// Dimensions: " \o IntToStr(w) \o "x" \o IntToStr(h))
    \o PrintLine("// Total pixels: " \o IntToStr(w * h))

\* filled_pixels/total_pixels*100 as {:.1f}
Percentage(filled, total) ==
    FormatFixed1(FloatMulInt(100, TrueDivide(filled, total)))

\* lines 103-108 and the return of main; the division of line 108 raises
\* ZeroDivisionError on an image of no pixels
Summary ==
    /\ pc = "summary"
    /\ IF width * height = 0
       THEN /\ stderr' = stderr \o SummaryHead(width, height)
                                \o Traceback("ZeroDivisionError")
            /\ Exit(1)
       ELSE /\ stderr' = stderr \o SummaryHead(width, height)
                \o PrintLine("// Filled pixels: " \o IntToStr(FilledPixels(pixels))
                             \o " (" \o Percentage(FilledPixels(pixels), width * height)
                             \o "%)")
            /\ Exit(0)
    /\ UNCHANGED <<argv, disk, stdout, calls, locals>>

Next ==
    \/ Usage
    \/ ParseArgs
    \/ ArgsError
    \/ FileNotFound
    \/ FileExists
    \/ OpenImage
    \/ OpenError
    \/ ResizeImage
    \/ ResizeError
    \/ SkipResize
    \/ Threshold
    \/ Emit
    \/ Summary

Spec == Init /\ [][Next]_vars

(***************************************************************************)
(* ResizeSpec: the resize step of image_to_sprite (lines 30-36) on its     *)
(* own, from the states of a run that has loaded an image of any size up   *)
(* to MaxDim x MaxDim and was given a target width up to MaxDim.           *)
(***************************************************************************)
GreyImage(w, h) ==
    [mode |-> "RGB", width |-> w, height |-> h,
     data |-> [c \in Coords(w, h) |-> <<128, 128, 128>>]]

Loaded(w, h, tw) ==
    /\ argv = <<ProgramName, ImagePath, "128", IntToStr(tw)>>
    /\ disk = [kind |-> "image", image |-> GreyImage(w, h)]
    /\ pc = "resize"
    /\ status = None
    /\ stdout = ""
    /\ stderr = ""
    /\ calls = <<"os.path.exists", "Image.open">>
    /\ image_path = ImagePath
    /\ threshold = DefaultThreshold
    /\ target_width = <<tw>>
    /\ img = GreyImage(w, h)
    /\ pixels = <<>>
    /\ width = 0
    /\ height = 0

ResizeInit == \E w \in 1..MaxDim, h \in 1..MaxDim, tw \in 1..MaxDim : Loaded(w, h, tw)

ResizeNext == ResizeImage \/ ResizeError

ResizeSpec == ResizeInit /\ [][ResizeNext]_vars

(***************************************************************************)
(* Properties.                                                             *)
(***************************************************************************)
\* image_to_sprite has returned its grid
Converted == pc \in {"emit", "summary"} \/ (pc = "exited" /\ status = <<0>>)

OriginalWidth == disk.image.width

OriginalHeight == disk.image.height

Resized == Len(calls) > 0 /\ Last(calls) = "Image.resize"

\* C1: once the grid is built, grid[y][x] is 1 exactly where the mean
\* (R + G + B) / 3 of the pixel at (x, y) of the (possibly resized) image is
\* strictly below the threshold, that is R + G + B < 3 * threshold, and 0
\* elsewhere; the grid holds nothing but 0 and 1.
GridIsThresholdOfImage ==
    Converted =>
        /\ \A c \in DOMAIN img.data :
              pixels[c[2] + 1][c[1] + 1] =
                  IF img.data[c][1] + img.data[c][2] + img.data[c][3] < 3 * threshold
                  THEN 1 ELSE 0
        /\ \A y \in DOMAIN pixels : \A i \in DOMAIN pixels[y] : pixels[y][i] \in {0, 1}

\* a resized image thresholded with one pixel exactly at the threshold (0)
\* and one just below it (1)
GridIsThresholdOfImageWitness ==
    /\ Converted
    /\ Resized
    /\ \E c, d \in DOMAIN img.data :
          /\ img.data[c][1] + img.data[c][2] + img.data[c][3] = 3 * threshold
          /\ img.data[d][1] + img.data[d][2] + img.data[d][3] = 3 * threshold - 1
          /\ pixels[c[2] + 1][c[1] + 1] = 0
          /\ pixels[d[2] + 1][d[1] + 1] = 1

\* C2: the grid returned is rectangular: `height` rows of `width` entries
\* each, (width, height) being the size of the image after the resize.
GridIsRectangular ==
    Converted =>
        /\ width = img.width
        /\ height = img.height
        /\ Len(pixels) = height
        /\ \A y \in 1..Len(pixels) : Len(pixels[y]) = width

GridIsRectangularWitness ==
    Converted /\ Resized /\ width # height /\ width # OriginalWidth

\* C3, as claimed: the resize gives width W and height
\* round(W * originalHeight / originalWidth), to the nearest integer.
HeightIsRounded ==
    pc = "threshold" =>
        /\ img.width = target_width[1]
        /\ img.height = (2 * target_width[1] * OriginalHeight + OriginalWidth)
                           \div (2 * OriginalWidth)

\* C3, amended: the resize gives width W and a height of at least 1 that is
\* W * originalHeight / originalWidth with its fraction dropped: the floor
\* of the exact quotient, or, where the quotient is a whole number, that
\* number or one less (the float product may fall just short of it).
HeightIsTruncated ==
    pc = "threshold" =>
        LET n == target_width[1] * OriginalHeight
        IN  /\ img.width = target_width[1]
            /\ img.height >= 1
            /\ img.height <= n \div OriginalWidth
            /\ n % OriginalWidth # 0 => img.height = n \div OriginalWidth
            /\ n % OriginalWidth = 0 => img.height >= (n \div OriginalWidth) - 1

\* a resize whose exact height has a fraction of one half or more, dropped
HeightIsTruncatedWitness ==
    /\ pc = "threshold"
    /\ Resized
    /\ 2 * ((target_width[1] * OriginalHeight) % OriginalWidth) >= OriginalWidth
    /\ img.height = (target_width[1] * OriginalHeight) \div OriginalWidth

\* the complete literal of the grid of the run
Literal == PrintLine(FormatAsTypescript(pixels, "STACK_ATTACK_LOGO"))

\* C4: a run that fails leaves standard output empty, and standard output
\* is never anything but empty or the complete literal.
StdoutEmptyOrLiteral ==
    /\ (pc = "exited" /\ status # <<0>>) => stdout = ""
    /\ stdout = "" \/ (Converted /\ stdout = Literal)

\* C5, as claimed: a run whose image path is given and names no file ends
\* with the file-not-found message on standard error, status 1, nothing on
\* standard output and no call of the loader.
MissingFileIsReported ==
    (pc = "exited" /\ Len(argv) >= 2 /\ disk.kind = "missing") =>
        /\ stderr = "Error: File not found: " \o argv[2] \o "\n"
        /\ status = <<1>>
        /\ stdout = ""
        /\ calls = <<"os.path.exists">>

\* C5, amended: the same, for the runs whose threshold and width arguments,
\* where given, are integers.
MissingFileIsReportedIfArgsInts ==
    (pc = "exited" /\ Len(argv) >= 2 /\ disk.kind = "missing" /\ ArgsAreInts) =>
        /\ stderr = "Error: File not found: " \o argv[2] \o "\n"
        /\ status = <<1>>
        /\ stdout = ""
        /\ calls = <<"os.path.exists">>

MissingFileIsReportedWitness ==
    /\ pc = "exited"
    /\ Len(argv) = 4
    /\ disk.kind = "missing"
    /\ ArgsAreInts
    /\ calls = <<"os.path.exists">>

\* C6, as claimed: a run given no argument, or more than three, is told the
\* usage, ends with a status other than 0 and does nothing else.
WrongCountIsUsageError ==
    (Len(argv) < 2 \/ Len(argv) > 4) =>
        /\ calls = <<>>
        /\ pc \in {"main", "exited"}
        /\ pc = "exited" => (stdout = UsageText /\ status # <<0>>)

\* C6, amended: a run given no argument is told the usage, ends with
\* status 1 and does nothing else.
NoArgumentIsUsageError ==
    Len(argv) < 2 =>
        /\ calls = <<>>
        /\ pc \in {"main", "exited"}
        /\ pixels = <<>>
        /\ pc = "exited" => (stdout = UsageText /\ status = <<1>> /\ stderr = "")

NoArgumentIsUsageErrorWitness == pc = "exited" /\ Len(argv) < 2 /\ stdout = UsageText

\* C7: with no target width on the command line there is no resize: the
\* width and height returned and the size of the grid are those of the
\* decoded image.
NoWidthKeepsSize ==
    (Len(argv) < 4 /\ (pc \in {"resize", "threshold"} \/ Converted)) =>
        /\ ~Resized
        /\ img.width = OriginalWidth /\ img.height = OriginalHeight
        /\ Converted =>
              /\ width = OriginalWidth
              /\ height = OriginalHeight
              /\ Len(pixels) = OriginalHeight
              /\ \A y \in 1..Len(pixels) : Len(pixels[y]) = OriginalWidth

NoWidthKeepsSizeWitness ==
    /\ Converted
    /\ Len(argv) = 3
    /\ OriginalWidth # OriginalHeight
    /\ width = OriginalWidth

Phase(p) ==
    CASE p \in {"main", "exists"} -> 1              \* Validating Arguments
      [] p \in {"open", "resize", "threshold"} -> 2  \* Converting
      [] p \in {"emit", "summary"} -> 3              \* Emitting Output
      [] p = "exited" -> 4

\* the place of pc in the order of the program
Rank(p) ==
    CASE p = "main" -> 1
      [] p = "exists" -> 2
      [] p = "open" -> 3
      [] p = "resize" -> 4
      [] p = "threshold" -> 5
      [] p = "emit" -> 6
      [] p = "summary" -> 7
      [] p = "exited" -> 8

\* what makes the step at pc fail
Fails ==
    \/ pc = "main" /\ (Len(argv) < 2 \/ ~ArgsAreInts)
    \/ pc = "exists" /\ disk.kind = "missing"
    \/ pc = "open" /\ disk.kind # "image"
    \/ /\ pc = "resize"
       /\ target_width # None
       /\ target_width[1] # 0
       /\ (target_width[1] < 0 \/ target_width[1] * img.height < img.width)

PhaseStep ==
    /\ pc # "exited"
    /\ Rank(pc') > Rank(pc)
    /\ Phase(pc') \in {Phase(pc), Phase(pc) + 1, 4}
    /\ Fails => (pc' = "exited" /\ status' # <<0>>)
    /\ status' # None => pc' = "exited"
    /\ (stdout' # stdout /\ status' = None) =>
          /\ pc = "emit"
          /\ Len(pixels) = img.height
          /\ stdout' = stdout \o Literal
    /\ (stderr' # stderr /\ Phase(pc) = 3) => (pc = "summary" /\ stdout = Literal)
    /\ (pc' = "exited" /\ status' = <<0>>) => pc = "summary"
    /\ (pc' = "exited" /\ Phase(pc) = 3) => status' = <<0>>

\* C8: a run goes through Validating Arguments, Converting and Emitting
\* Output in that order; the literal is written only once the conversion is
\* done and the summary only after the literal; a step that fails ends the
\* run there and then, and nothing follows the end of a run; a run whose
\* validation and conversion succeed can only end with status 0, and every
\* step is further on in the program than the one before.
PhasesInOrder == [][PhaseStep]_vars

PhasesInOrderWitness ==
    /\ pc = "exited"
    /\ status = <<0>>
    /\ Resized
    /\ stdout = Literal

\* the lines of a text that ends each of them with a newline
Newlines(text) == {i \in 1..Len(text) : CharAt(text, i) = "\n"}

LineEnd(text, k) ==
    CHOOSE i \in Newlines(text) : Cardinality({j \in Newlines(text) : j <= i}) = k

Lines(text) ==
    [k \in 1..Cardinality(Newlines(text)) |->
        SubSeq(text, IF k = 1 THEN 1 ELSE LineEnd(text, k - 1) + 1, LineEnd(text, k) - 1)]

\* a line of the literal for one row: the row's values from left to right
\* with commas between them, in brackets, a comma after
IsRowLine(line, row) ==
    /\ Len(line) = 4 + 1 + (2 * Len(row) - 1) + 2
    /\ SubSeq(line, 1, 5) = "    ["
    /\ \A i \in 1..Len(row) : CharAt(line, 4 + 2 * i) = Digits[row[i] + 1]
    /\ \A i \in 1..(Len(row) - 1) : CharAt(line, 5 + 2 * i) = ","
    /\ SubSeq(line, Len(line) - 1, Len(line)) = "],"

\* C9: the literal written for the grid is the line
\* `const STACK_ATTACK_LOGO = {`, the line `  pixels: [`, one line a row of
\* the grid from the top, each the row's values comma-joined in brackets with
\* a comma after it, then `  ],` and `};`: as many row lines as the grid is
\* high and as many values on each as it is wide.
LiteralHasTheShape ==
    (pc \in {"summary", "exited"} /\ Converted) =>
        LET lines == Lines(stdout)
        IN  /\ stdout # "" /\ CharAt(stdout, Len(stdout)) = "\n"
            /\ Len(lines) = height + 4
            /\ lines[1] = "const STACK_ATTACK_LOGO = {"
            /\ lines[2] = "  pixels: ["
            /\ \A y \in 1..height :
                  Len(pixels[y]) = width /\ IsRowLine(lines[y + 2], pixels[y])
            /\ lines[height + 3] = "  ],"
            /\ lines[height + 4] = "};"

LiteralHasTheShapeWitness ==
    /\ pc = "exited"
    /\ Converted
    /\ height >= 2
    /\ width >= 2
    /\ \E y, z \in 1..height : pixels[y] # pixels[z]

\* C10: a target width of 0 is treated as no target width: no resize, the
\* image and the size returned are those decoded, and the run ends with
\* status 0 wherever it would have without the argument.
ZeroWidthIsNoWidth ==
    (Len(argv) >= 4 /\ argv[4] = "0") =>
        /\ "Image.resize" \notin {calls[i] : i \in 1..Len(calls)}
        /\ Converted =>
              /\ img.data = ConvertRGB(disk.image).data
              /\ width = OriginalWidth
              /\ height = OriginalHeight
        /\ (pc = "exited" /\ IsInt(argv[3]) /\ disk.kind = "image") =>
              status = <<0>>

ZeroWidthIsNoWidthWitness ==
    /\ pc = "exited"
    /\ Len(argv) >= 4
    /\ argv[4] = "0"
    /\ status = <<0>>
    /\ width # height

====
